---- MODULE Spec2Model ----
(***************************************************************************)
(* Verification model of OutrunMusicRider: the game controller with its    *)
(* automatic lane-avoidance heuristic (core/game/GameController), the      *)
(* audio engine's playback clock (core/audio/AudioEngine) and the offline  *)
(* audio analysis (core/audio/AudioAnalysis).                              *)
(*                                                                         *)
(* Units.  Times are integers counting fifths of a second (the cooldown    *)
(* 0.4 s is 2, the speed 50 units/s is 10 units per fifth).  Distances     *)
(* along the track are integers counting track units.  Scores of the       *)
(* heuristic are exact rationals, kept as integers scaled by ScoreScale.   *)
(* Floating-point rounding is not modelled.                                *)
(***************************************************************************)
EXTENDS Integers, Sequences, FiniteSets, TLC

VARIABLES
  currentTime,         \* AudioContext.currentTime
  audioBuffer,         \* AudioEngine.audioBuffer (NoBuffer = null)
  startTime,           \* AudioEngine.startTime
  pausedTime,          \* AudioEngine.pausedTime
  isPlaying,           \* AudioEngine.isPlaying
  trackData,           \* GameController.trackData (NoTrack = null)
  distance,            \* GameController.gameState.car.distance
  laneOffsetIndex,     \* GameController.gameState.car.laneOffsetIndex
  lastAutoLaneChange,  \* GameController.lastAutoLaneChange
  loads,               \* the loadFile calls in flight: call number -> stage
  rnd,                 \* the Math.random() * 0.15 draws of the step just taken, per lane
  dodge,               \* the return path maybeAutoDodge took in the step just taken
                       \* ("idle" after a step that did not call it)
  \* analyzeBuffer: its input, its locals and its position
  duration,            \* buffer.duration
  channelData,         \* buffer.getChannelData(0)
  sampleRate,          \* buffer.sampleRate
  currentSample,
  energySamples,
  trebleSamples,
  rmsValues,
  trebleRmsValues,
  threshold,
  beats,
  trebleThreshold,
  treblePeaks,
  loopIndex,           \* the i of the detection loop that is running
  apc,                 \* "idle", "windows", "beats", "treble" or "done"
  \* generateTrack: its argument, its result and its position
  musicMap,
  generated,
  gpc                  \* "idle", "called" or "returned"

vars == <<currentTime, audioBuffer, startTime, pausedTime, isPlaying,
          trackData, distance, laneOffsetIndex, lastAutoLaneChange,
          loads, rnd, dodge,
          channelData, sampleRate, currentSample, energySamples, trebleSamples,
          rmsValues, trebleRmsValues, threshold, beats, trebleThreshold,
          treblePeaks, loopIndex, apc,
          duration, musicMap, generated, gpc>>

engineVars == <<audioBuffer, startTime, pausedTime, isPlaying>>
controllerVars == <<currentTime, audioBuffer, startTime, pausedTime, isPlaying,
                    trackData, distance, laneOffsetIndex, lastAutoLaneChange,
                    loads, rnd, dodge>>
analysisVars == <<duration, channelData, sampleRate, currentSample, energySamples, trebleSamples,
                  rmsValues, trebleRmsValues, threshold, beats, trebleThreshold,
                  treblePeaks, loopIndex, apc>>
generatorVars == <<musicMap, generated, gpc>>
carVars == <<distance, laneOffsetIndex, lastAutoLaneChange>>
NoDodge == rnd' = [lane \in {-1, 0, 1} |-> 0] /\ dodge' = "idle"

----------------------------------------------------------------------------
(* Bounds of the model *)

MaxTime == 4      \* AudioContext.currentTime stops advancing here (fifths of a second)
MaxLoads == 2     \* loadFile calls made over a run
MaxPulses == 5    \* treble pulses of a generated track

----------------------------------------------------------------------------
(* Program constants *)

speed == 10           \* 50 units per second, in units per fifth of a second
lookAhead == 25
conflictRange == 8
cooldown == 2         \* 0.4 s in fifths of a second
candidateLanes == <<-1, 0, 1>>
lanePattern == <<-1, 1, 0>>

Lanes == {-1, 0, 1}
NoBuffer == [duration |-> -1, peakZ |-> <<>>]
NoTrack == [length |-> -1, treblePulses |-> <<>>]

Min(a, b) == IF a < b THEN a ELSE b
Max(a, b) == IF a > b THEN a ELSE b
Abs(a) == IF a < 0 THEN -a ELSE a

----------------------------------------------------------------------------
(* Inputs: the decoded recordings.  A recording is its duration and the    *)
(* positions along the track (pos.z) at which its treble peaks end up.     *)

Durations == {3, 5}
PulseZ == {15, 25, 28, 35, 45}

RECURSIVE NonDecreasing(_)
NonDecreasing(s) ==
  IF Len(s) < 2 THEN TRUE
  ELSE s[1] <= s[2] /\ NonDecreasing(Tail(s))

PulseSeqs(n) == {s \in [1..n -> PulseZ] : NonDecreasing(s)}

Buffers ==
  { [duration |-> d, peakZ |-> zs] :
      d \in Durations,
      zs \in UNION { PulseSeqs(n) : n \in 0..MaxPulses } }

ValidBuffers == { b \in Buffers : \A i \in DOMAIN b.peakZ : b.peakZ[i] <= b.duration * speed }

\* the recordings of the sessions with reloads: at most one treble peak each
SessionBuffers == { b \in ValidBuffers : Len(b.peakZ) <= 1 }

\* Math.random() * 0.15, in hundredths
RandomDraws == {0, 7, 14}

----------------------------------------------------------------------------
(* TrackGenerator, as far as the controller reads its result: the track's  *)
(* length and the lane and position of every treble pulse.                 *)

PulseOf(peakZ, index) ==
  [laneIndex |-> lanePattern[(index % Len(lanePattern)) + 1], z |-> peakZ[index + 1]]

generateTrack(buffer) ==
  [length |-> buffer.duration * speed,
   treblePulses |-> [i \in 1..Len(buffer.peakZ) |-> PulseOf(buffer.peakZ, i - 1)]]

----------------------------------------------------------------------------
(* AudioEngine *)

getCurrentTime ==
  IF audioBuffer = NoBuffer THEN 0
  ELSE IF ~isPlaying THEN pausedTime
  ELSE Min(currentTime - startTime, audioBuffer.duration)

\* variant: play() restarts the clock instead of resuming at the paused offset
PlayStartTimeNoOffset == currentTime

\* const offset = this.pausedTime; this.startTime = context.currentTime - offset
PlayStartTime == currentTime - pausedTime

EnginePlay ==
  IF audioBuffer = NoBuffer \/ isPlaying
  THEN UNCHANGED engineVars
  ELSE /\ startTime' = PlayStartTime
       /\ isPlaying' = TRUE
       /\ UNCHANGED <<audioBuffer, pausedTime>>

EnginePause ==
  IF ~isPlaying
  THEN UNCHANGED engineVars
  ELSE /\ pausedTime' = getCurrentTime
       /\ isPlaying' = FALSE
       /\ UNCHANGED <<audioBuffer, startTime>>

----------------------------------------------------------------------------
(* GameState *)

clampLane(targetLane) == Max(-1, Min(1, targetLane))

----------------------------------------------------------------------------
(* GameController.maybeAutoDodge *)

Delta(pulse, carDistance) == pulse.z - carDistance

upcomingPulses(track, carDistance) ==
  SelectSeq(track.treblePulses,
            LAMBDA pulse : Delta(pulse, carDistance) > 0 /\ Delta(pulse, carDistance) < lookAhead)

InConflict(pulse, lane, carDistance) ==
  pulse.laneIndex = lane /\ Delta(pulse, carDistance) < conflictRange

\* Array.prototype.find: the first matching element, NoPulse (undefined) if none
NoPulse == [laneIndex |-> 2, z |-> -1]

\* variant: the find() predicate omits the test on the car's lane
blockingPulseAnyLane(upcoming, lane, carDistance) ==
  IF \E i \in DOMAIN upcoming : Delta(upcoming[i], carDistance) < conflictRange
  THEN upcoming[CHOOSE i \in DOMAIN upcoming :
                  /\ Delta(upcoming[i], carDistance) < conflictRange
                  /\ \A j \in 1..(i - 1) : ~(Delta(upcoming[j], carDistance) < conflictRange)]
  ELSE NoPulse

blockingPulse(upcoming, lane, carDistance) ==
  IF \E i \in DOMAIN upcoming : InConflict(upcoming[i], lane, carDistance)
  THEN upcoming[CHOOSE i \in DOMAIN upcoming :
                  /\ InConflict(upcoming[i], lane, carDistance)
                  /\ \A j \in 1..(i - 1) : ~InConflict(upcoming[j], lane, carDistance)]
  ELSE NoPulse

\* variant: the filter omits the test for hazards of the candidate lane
safeLanesNoHazardCheck(upcoming, blocking, carDistance) ==
  SelectSeq(candidateLanes, LAMBDA lane : lane # blocking.laneIndex)

safeLanes(upcoming, blocking, carDistance) ==
  SelectSeq(candidateLanes,
            LAMBDA lane : /\ lane # blocking.laneIndex
                          /\ ~\E i \in DOMAIN upcoming : InConflict(upcoming[i], lane, carDistance))

lanePulses(upcoming, lane) == SelectSeq(upcoming, LAMBDA pulse : pulse.laneIndex = lane)

\* The forward distances at which the model can see a pulse, and the common
\* multiple that makes every 1 / max(1, delta) an integer.
SeenDeltas ==
  { d \in 1..(lookAhead - 1) :
      \E z \in PulseZ, t \in 0..MaxTime : z - t * speed = d }

RECURSIVE Gcd(_, _)
Gcd(a, b) == IF b = 0 THEN a ELSE Gcd(b, a % b)

RECURSIVE LcmOf(_)
LcmOf(S) ==
  IF S = {} THEN 1
  ELSE LET x == CHOOSE y \in S : TRUE
           rest == LcmOf(S \ {x})
       IN (rest \div Gcd(rest, x)) * x

PressureScale == LcmOf(SeenDeltas)
ScoreScale == 100 * PressureScale

RECURSIVE nearestObstacle(_, _, _)
nearestObstacle(pulses, carDistance, nearest) ==
  IF pulses = <<>> THEN nearest
  ELSE LET delta == Delta(Head(pulses), carDistance)
       IN nearestObstacle(Tail(pulses), carDistance,
                          IF delta > 0 THEN Min(nearest, delta) ELSE nearest)

\* in units of 1 / PressureScale
RECURSIVE obstaclePressure(_, _, _)
obstaclePressure(pulses, carDistance, pressure) ==
  IF pulses = <<>> THEN pressure
  ELSE LET delta == Delta(Head(pulses), carDistance)
       IN obstaclePressure(Tail(pulses), carDistance,
                           pressure + (IF delta > 0 THEN PressureScale \div Max(1, delta) ELSE 0))

\* variant: one cost for every change of lane, near or far
laneChangeCostPerChange(lane, currentLane) ==
  IF lane = currentLane THEN 0 ELSE 35 * PressureScale

\* variant: the cost omits Math.abs
laneChangeCostSigned(lane, currentLane) == (lane - currentLane) * 35 * PressureScale

\* 0.35 per lane, in units of 1 / ScoreScale
laneChangeCost(lane, currentLane) == Abs(lane - currentLane) * 35 * PressureScale

\* in units of 1 / ScoreScale; randomness is the lane's draw in hundredths
safetyScore(lane, upcoming, carDistance, currentLane, randomness) ==
  LET pulses == lanePulses(upcoming, lane)
  IN ScoreScale * nearestObstacle(pulses, carDistance, lookAhead)
       - 100 * obstaclePressure(pulses, carDistance, 0)
       - laneChangeCost(lane, currentLane)
       + randomness * PressureScale

\* variant: an unstable sort that puts the later of two equal scores first
ComesBeforeStrict(a, b) == a.safetyScore > b.safetyScore

\* insertion behind every element that does not compare lower: with the
\* elements inserted in array order this is the stable descending sort
ComesBefore(a, b) == a.safetyScore >= b.safetyScore

RECURSIVE InsertScored(_, _)
InsertScored(x, sorted) ==
  IF sorted = <<>> THEN <<x>>
  ELSE IF ComesBefore(Head(sorted), x)
       THEN <<Head(sorted)>> \o InsertScored(x, Tail(sorted))
       ELSE <<x>> \o sorted

RECURSIVE SortScored(_)
SortScored(scored) ==
  IF scored = <<>> THEN <<>>
  ELSE InsertScored(scored[Len(scored)], SortScored(SubSeq(scored, 1, Len(scored) - 1)))

scoredLanes(safe, upcoming, carDistance, currentLane, draws) ==
  [i \in 1..Len(safe) |->
     [lane |-> safe[i],
      safetyScore |-> safetyScore(safe[i], upcoming, carDistance, currentLane, draws[safe[i]])]]

NoDraws == [lane \in Lanes |-> 0]

InSeq(x, s) == \E i \in DOMAIN s : s[i] = x

\* one draw per safe lane (Math.random is called inside safeLanes.map)
DrawsFor(safe) ==
  { r \in [Lanes -> RandomDraws \cup {0}] : \A lane \in Lanes : ~InSeq(lane, safe) => r[lane] = 0 }

\* variant: the cooldown is measured from the start of playback
InCooldownSinceStart(audioTime) == audioTime < cooldown

InCooldown(audioTime) == audioTime - lastAutoLaneChange < cooldown

maybeAutoDodge(audioTime, carDistance) ==
  LET upcoming == upcomingPulses(trackData, carDistance)
      blocking == blockingPulse(upcoming, laneOffsetIndex, carDistance)
  IN
  IF trackData = NoTrack
  THEN /\ dodge' = "idle"
       /\ rnd' = NoDraws
       /\ UNCHANGED <<laneOffsetIndex, lastAutoLaneChange>>
  ELSE IF InCooldown(audioTime)
  THEN /\ dodge' = "cooldown"
       /\ rnd' = NoDraws
       /\ UNCHANGED <<laneOffsetIndex, lastAutoLaneChange>>
  ELSE IF blocking = NoPulse
  THEN /\ dodge' = "clear"
       /\ rnd' = NoDraws
       /\ UNCHANGED <<laneOffsetIndex, lastAutoLaneChange>>
  ELSE LET safe == safeLanes(upcoming, blocking, carDistance)
       IN IF Len(safe) = 0
          THEN /\ dodge' = "nosafe"
               /\ rnd' = NoDraws
               /\ UNCHANGED <<laneOffsetIndex, lastAutoLaneChange>>
          ELSE \E draws \in DrawsFor(safe) :
                 LET sorted == SortScored(scoredLanes(safe, upcoming, carDistance,
                                                      laneOffsetIndex, draws))
                 IN /\ laneOffsetIndex' = sorted[1].lane
                    /\ lastAutoLaneChange' = audioTime
                    /\ rnd' = draws
                    /\ dodge' = "changed"

----------------------------------------------------------------------------
(* GameController *)

\* variant: the clock is not multiplied by the speed
TargetDistanceNoSpeed(audioTime) == audioTime

TargetDistance(audioTime) == audioTime * speed

\* variant: the playback state not looked at
TickingWhenLoaded == trackData # NoTrack

Ticking == trackData # NoTrack /\ isPlaying

update ==
  /\ IF ~Ticking
     THEN UNCHANGED carVars /\ NoDodge
     ELSE LET audioTime == getCurrentTime
              carDistance == Min(TargetDistance(audioTime), trackData.length)
          IN /\ distance' = carDistance
             /\ maybeAutoDodge(audioTime, carDistance)
  /\ UNCHANGED <<currentTime, engineVars, trackData, loads>>
  /\ UNCHANGED <<analysisVars, generatorVars>>

Keys == {"ArrowLeft", "ArrowRight", "Space"}

\* variant: ArrowLeft without Math.max
laneLeftUnclamped(currentLane) == currentLane - 1

laneLeft(currentLane) == Max(-1, currentLane - 1)

\* variant: ArrowRight without Math.min
laneRightUnclamped(currentLane) == currentLane + 1

laneRight(currentLane) == Min(1, currentLane + 1)

handleInput(key) ==
  /\ laneOffsetIndex' =
       IF key = "ArrowLeft" THEN laneLeft(laneOffsetIndex)
       ELSE IF key = "ArrowRight" THEN laneRight(laneOffsetIndex)
       ELSE laneOffsetIndex
  /\ UNCHANGED <<currentTime, engineVars, trackData, loads,
                 distance, lastAutoLaneChange>>
  /\ NoDodge
  /\ UNCHANGED <<analysisVars, generatorVars>>

LaneTargets == -2..2

applyLaneChange(targetLane) ==
  /\ laneOffsetIndex' = clampLane(targetLane)
  /\ UNCHANGED <<currentTime, engineVars, trackData, loads,
                 distance, lastAutoLaneChange>>
  /\ NoDodge
  /\ UNCHANGED <<analysisVars, generatorVars>>

play ==
  /\ EnginePlay
  /\ UNCHANGED <<currentTime, trackData, loads, carVars>> /\ NoDodge
  /\ UNCHANGED <<analysisVars, generatorVars>>

pause ==
  /\ EnginePause
  /\ UNCHANGED <<currentTime, trackData, loads, carVars>> /\ NoDodge
  /\ UNCHANGED <<analysisVars, generatorVars>>

(* loadFile.  Its awaits split it into three steps: file.arrayBuffer()     *)
(* pending, decodeAudioData() pending, and the rest.  Once decodeAudioData *)
(* resolves, every later await is on an already settled promise           *)
(* (AudioEngine.loadFile's return, analyzeBuffer's return), so the         *)
(* continuations run as consecutive microtasks with no animation frame or  *)
(* input event between them: one step.                                     *)

LoadIds == 1..MaxLoads

loadFileStart(k) ==
  /\ loads[k] = "none"
  /\ k > 1 => loads[k - 1] # "none"
  /\ loads' = [loads EXCEPT ![k] = "reading"]
  /\ UNCHANGED <<currentTime, engineVars, trackData, carVars>> /\ NoDodge
  /\ UNCHANGED <<analysisVars, generatorVars>>

loadFileRead(k) ==
  /\ loads[k] = "reading"
  /\ loads' = [loads EXCEPT ![k] = "decoding"]
  /\ UNCHANGED <<currentTime, engineVars, trackData, carVars>> /\ NoDodge
  /\ UNCHANGED <<analysisVars, generatorVars>>

\* variant: the engine keeps the first buffer it decoded
loadFileDecodedKeepFirst(k, buffer) ==
  /\ loads[k] = "decoding"
  /\ loads' = [loads EXCEPT ![k] = "settled"]
  /\ audioBuffer' = IF audioBuffer = NoBuffer THEN buffer ELSE audioBuffer
  /\ trackData' = generateTrack(buffer)
  /\ distance' = 0
  /\ laneOffsetIndex' = 0
  /\ UNCHANGED <<currentTime, startTime, pausedTime, isPlaying,
                 lastAutoLaneChange>>
  /\ NoDodge
  /\ UNCHANGED <<analysisVars, generatorVars>>

loadFileDecoded(k, buffer) ==
  /\ loads[k] = "decoding"
  /\ loads' = [loads EXCEPT ![k] = "settled"]
  /\ audioBuffer' = buffer
  /\ trackData' = generateTrack(buffer)
  /\ distance' = 0
  /\ laneOffsetIndex' = 0
  /\ UNCHANGED <<currentTime, startTime, pausedTime, isPlaying,
                 lastAutoLaneChange>>
  /\ NoDodge
  /\ UNCHANGED <<analysisVars, generatorVars>>

\* arrayBuffer() or decodeAudioData() rejects: the error is logged and rethrown
loadFileFailed(k) ==
  /\ loads[k] \in {"reading", "decoding"}
  /\ loads' = [loads EXCEPT ![k] = "settled"]
  /\ UNCHANGED <<currentTime, engineVars, trackData, carVars>> /\ NoDodge
  /\ UNCHANGED <<analysisVars, generatorVars>>

\* the audio hardware clock
AdvanceTime ==
  /\ currentTime < MaxTime
  /\ currentTime' = currentTime + 1
  /\ UNCHANGED <<engineVars, trackData, loads, carVars>> /\ NoDodge
  /\ UNCHANGED <<analysisVars, generatorVars>>

----------------------------------------------------------------------------
(* AudioAnalysis.analyzeBuffer.  Samples are integers (scaled amplitudes). *)
(* The inputs are the buffers in which every window's mean square and mean *)
(* squared difference is a perfect square, so that every rms is an         *)
(* integer.  A time is the fraction num / den of a second.                 *)

MaxSamples == 8     \* samples of a decoded buffer
MaxWindows == 6     \* windows the model follows a run of the windowing loop for

SampleRates == {27, 44}
Amplitudes == {-2, -1, 0, 1, 2}

\* variant: windows of 100 ms
hopSizeTenth(rate) == rate \div 10

\* Math.floor(sampleRate * 0.075)
hopSize(rate) == (rate * 75) \div 1000

IsSquare(n) == \E r \in 0..n : r * r = n
Sqrt(n) == CHOOSE r \in 0..n : r * r = n

RECURSIVE SumSeq(_)
SumSeq(values) == IF values = <<>> THEN 0 ELSE Head(values) + SumSeq(Tail(values))

\* channelData.slice(startSample, endSample)
slice(data, startSample, endSample) == SubSeq(data, startSample + 1, endSample)

\* array[index], index counted from 0
At(array, index) == array[index + 1]

\* variant: a window stamped with the sample after its last
TimeAtEnd(sample, rate) == [num |-> sample + hopSize(rate), den |-> rate]

Time(sample, rate) == [num |-> sample, den |-> rate]

sumSquares(chunk) == SumSeq([k \in 1..Len(chunk) |-> chunk[k] * chunk[k]])

trebleSumSquares(chunk) ==
  SumSeq([k \in 1..(Len(chunk) - 1) |-> (chunk[k + 1] - chunk[k]) * (chunk[k + 1] - chunk[k])])

\* 0 / 0
NaN == "NaN"

chunkRms(chunk) ==
  IF Len(chunk) = 0 THEN NaN ELSE Sqrt(sumSquares(chunk) \div Len(chunk))

chunkTrebleRms(chunk) == Sqrt(trebleSumSquares(chunk) \div Max(1, Len(chunk) - 1))

ExactChunk(chunk) ==
  /\ sumSquares(chunk) % Len(chunk) = 0
  /\ IsSquare(sumSquares(chunk) \div Len(chunk))
  /\ trebleSumSquares(chunk) % Max(1, Len(chunk) - 1) = 0
  /\ IsSquare(trebleSumSquares(chunk) \div Max(1, Len(chunk) - 1))

ExactBuffer(data, rate) ==
  /\ hopSize(rate) > 0
  /\ \A k \in 0..Len(data) :
       k * hopSize(rate) < Len(data)
         => ExactChunk(slice(data, k * hopSize(rate),
                             Min((k + 1) * hopSize(rate), Len(data))))

\* mean + 0.5 * stdDev of the values, kept exact as (n, sum, dev):
\* mean = sum / n and variance = dev / n^3, dev the sum of (n * value - sum)^2
ZeroThreshold == [n |-> 1, sum |-> 0, dev |-> 0]

\* variant: 0.5 * stdDev alone, the mean left out
calculateRMSThresholdNoMean(values) ==
  IF Len(values) = 0 THEN ZeroThreshold
  ELSE LET n == Len(values)
           sum == SumSeq(values)
           dev == SumSeq([k \in 1..n |-> (n * values[k] - sum) * (n * values[k] - sum)])
       IN [n |-> n, sum |-> 0, dev |-> dev]

calculateRMSThreshold(values) ==
  IF Len(values) = 0 THEN ZeroThreshold
  ELSE LET n == Len(values)
           sum == SumSeq(values)
           dev == SumSeq([k \in 1..n |-> (n * values[k] - sum) * (n * values[k] - sum)])
       IN [n |-> n, sum |-> sum, dev |-> dev]

\* value > t, that is 2 n^2 value - 2 n sum > sqrt(n dev)
Above(value, t) ==
  LET a == 2 * t.n * t.n * value - 2 * t.n * t.sum
  IN a > 0 /\ a * a > t.n * t.dev

\* variant: a plateau's later window counts as a local maximum
isBeatNotStrict(prevRMS, currRMS, nextRMS, t) ==
  currRMS >= prevRMS /\ currRMS > nextRMS /\ Above(currRMS, t)

\* variant: the test against the next window left out
isBeatRising(prevRMS, currRMS, nextRMS, t) ==
  currRMS > prevRMS /\ Above(currRMS, t)

isBeat(prevRMS, currRMS, nextRMS, t) ==
  currRMS > prevRMS /\ currRMS > nextRMS /\ Above(currRMS, t)

isTreblePeak(prev, current, next, t) ==
  current > prev /\ current > next /\ Above(current, t)

processChunk ==
  /\ apc = "windows"
  /\ currentSample < Len(channelData)
  /\ Len(rmsValues) < MaxWindows
  /\ LET endSample == Min(currentSample + hopSize(sampleRate), Len(channelData))
         chunk == slice(channelData, currentSample, endSample)
         time == Time(currentSample, sampleRate)
         rms == chunkRms(chunk)
         trebleRms == chunkTrebleRms(chunk)
     IN /\ rmsValues' = Append(rmsValues, rms)
        /\ trebleRmsValues' = Append(trebleRmsValues, trebleRms)
        /\ energySamples' = Append(energySamples, [time |-> time, rms |-> rms])
        /\ trebleSamples' = Append(trebleSamples, [time |-> time, rms |-> trebleRms])
        /\ currentSample' = endSample
  /\ UNCHANGED <<duration, channelData, sampleRate, threshold, beats, trebleThreshold,
                 treblePeaks, loopIndex, apc>>
  /\ UNCHANGED <<controllerVars, generatorVars>>

detectBeatsStart ==
  /\ apc = "windows"
  /\ ~(currentSample < Len(channelData))
  /\ threshold' = calculateRMSThreshold(rmsValues)
  /\ loopIndex' = 1
  /\ apc' = "beats"
  /\ UNCHANGED <<duration, channelData, sampleRate, currentSample, energySamples, trebleSamples,
                 rmsValues, trebleRmsValues, beats, trebleThreshold, treblePeaks>>
  /\ UNCHANGED <<controllerVars, generatorVars>>

detectBeat ==
  /\ apc = "beats"
  /\ loopIndex < Len(rmsValues) - 1
  /\ LET prevRMS == At(rmsValues, loopIndex - 1)
         currRMS == At(rmsValues, loopIndex)
         nextRMS == At(rmsValues, loopIndex + 1)
     IN beats' = IF isBeat(prevRMS, currRMS, nextRMS, threshold)
                 THEN Append(beats, [time |-> At(energySamples, loopIndex).time,
                                     strength |-> currRMS])
                 ELSE beats
  /\ loopIndex' = loopIndex + 1
  /\ UNCHANGED <<duration, channelData, sampleRate, currentSample, energySamples, trebleSamples,
                 rmsValues, trebleRmsValues, threshold, trebleThreshold, treblePeaks, apc>>
  /\ UNCHANGED <<controllerVars, generatorVars>>

detectTrebleStart ==
  /\ apc = "beats"
  /\ ~(loopIndex < Len(rmsValues) - 1)
  /\ trebleThreshold' = calculateRMSThreshold(trebleRmsValues)
  /\ loopIndex' = 1
  /\ apc' = "treble"
  /\ UNCHANGED <<duration, channelData, sampleRate, currentSample, energySamples, trebleSamples,
                 rmsValues, trebleRmsValues, threshold, beats, treblePeaks>>
  /\ UNCHANGED <<controllerVars, generatorVars>>

detectTreble ==
  /\ apc = "treble"
  /\ loopIndex < Len(trebleRmsValues) - 1
  /\ LET prev == At(trebleRmsValues, loopIndex - 1)
         current == At(trebleRmsValues, loopIndex)
         next == At(trebleRmsValues, loopIndex + 1)
     IN treblePeaks' = IF isTreblePeak(prev, current, next, trebleThreshold)
                       THEN Append(treblePeaks, [time |-> At(trebleSamples, loopIndex).time,
                                                 strength |-> current])
                       ELSE treblePeaks
  /\ loopIndex' = loopIndex + 1
  /\ UNCHANGED <<duration, channelData, sampleRate, currentSample, energySamples, trebleSamples,
                 rmsValues, trebleRmsValues, threshold, beats, trebleThreshold, apc>>
  /\ UNCHANGED <<controllerVars, generatorVars>>

analyzeReturn ==
  /\ apc = "treble"
  /\ ~(loopIndex < Len(trebleRmsValues) - 1)
  /\ apc' = "done"
  /\ UNCHANGED <<duration, channelData, sampleRate, currentSample, energySamples, trebleSamples,
                 rmsValues, trebleRmsValues, threshold, beats, trebleThreshold,
                 treblePeaks, loopIndex>>
  /\ UNCHANGED <<controllerVars, generatorVars>>

----------------------------------------------------------------------------
(* TrackGenerator.generateTrack.  A real number is the fraction num / den, *)
(* den > 0.                                                                *)

Zero == [num |-> 0, den |-> 1]

EmptyMusicMap ==
  [duration |-> Zero, beats |-> <<>>, energySamples |-> <<>>,
   trebleSamples |-> <<>>, treblePeaks |-> <<>>]

EmptyTrack == [nodes |-> <<>>, treblePulses |-> <<>>, length |-> Zero]

One == [num |-> 1, den |-> 1]

\* the fraction n / d, d > 0, in lowest terms
Norm(n, d) ==
  LET g == Gcd(Abs(n), d)
  IN [num |-> n \div g, den |-> d \div g]

RInt(n) == [num |-> n, den |-> 1]
RAdd(a, b) == Norm(a.num * b.den + b.num * a.den, a.den * b.den)
RSub(a, b) == Norm(a.num * b.den - b.num * a.den, a.den * b.den)
RMul(a, b) == Norm(a.num * b.num, a.den * b.den)
\* a / b, b # 0
RDiv(a, b) ==
  IF b.num > 0 THEN Norm(a.num * b.den, a.den * b.num)
  ELSE Norm(-(a.num * b.den), -(a.den * b.num))
RLess(a, b) == a.num * b.den < b.num * a.den
RAbs(a) == [num |-> Abs(a.num), den |-> a.den]
RMin(a, b) == IF RLess(b, a) THEN b ELSE a
RMax(a, b) == IF RLess(a, b) THEN b ELSE a
\* Math.floor
RFloor(a) == a.num \div a.den
\* Math.round
RRound(a) == RFloor(RAdd(a, Norm(1, 2)))

\* the loop over the samples in smoothRMS: sum and count after the samples
RECURSIVE weighted(_, _, _, _)
weighted(samples, targetTime, windowSize, acc) ==
  IF samples = <<>> THEN acc
  ELSE LET sample == Head(samples)
           dist == RAbs(RSub(sample.time, targetTime))
       IN IF RLess(dist, windowSize)
          THEN LET weight == RSub(One, RDiv(dist, windowSize))
               IN weighted(Tail(samples), targetTime, windowSize,
                           [sum |-> RAdd(acc.sum, RMul(sample.rms, weight)),
                            count |-> RAdd(acc.count, weight)])
          ELSE weighted(Tail(samples), targetTime, windowSize, acc)

\* the value smoothRMS pushes for index i, targetCount > 1
smoothedAt(samples, targetCount, i) ==
  LET lastTime == samples[Len(samples)].time
      t == RDiv(RInt(i), RInt(targetCount - 1))
      targetTime == RMul(t, lastTime)
      windowSize == RMul(RDiv(lastTime, RInt(Len(samples))), RInt(2))
      acc == weighted(samples, targetTime, windowSize, [sum |-> Zero, count |-> Zero])
  IN IF RLess(Zero, acc.count) THEN RDiv(acc.sum, acc.count) ELSE Zero

\* the values pushed by the passes for the indices lo to hi, in order
RECURSIVE smoothedRange(_, _, _, _)
smoothedRange(samples, targetCount, lo, hi) ==
  IF lo > hi THEN <<>>
  ELSE IF lo = hi THEN <<smoothedAt(samples, targetCount, lo)>>
  ELSE LET mid == (lo + hi) \div 2
       IN smoothedRange(samples, targetCount, lo, mid)
            \o smoothedRange(samples, targetCount, mid + 1, hi)

\* new Array(targetCount).fill(0)
zeros(count) == [i \in 1..count |-> Zero] \o <<>>

smoothRMS(samples, targetCount) ==
  IF Len(samples) = 0 THEN zeros(targetCount)
  ELSE smoothedRange(samples, targetCount, 0, targetCount - 1)

\* strengths.sort((a, b) => a - b)
RECURSIVE InsertAscending(_, _)
InsertAscending(x, sorted) ==
  IF sorted = <<>> THEN <<x>>
  ELSE IF RLess(x, Head(sorted)) THEN <<x>> \o sorted
  ELSE <<Head(sorted)>> \o InsertAscending(x, Tail(sorted))

RECURSIVE SortAscending(_)
SortAscending(values) ==
  IF values = <<>> THEN <<>>
  ELSE InsertAscending(values[Len(values)], SortAscending(SubSeq(values, 1, Len(values) - 1)))

calculateBeatThreshold(markers) ==
  IF Len(markers) = 0 THEN Zero
  ELSE LET strengths == SortAscending([k \in 1..Len(markers) |-> markers[k].strength])
           median == At(strengths, Len(strengths) \div 2)
       IN RMul(median, Norm(12, 10))

\* .sort((a, b) => a.time - b.time), a stable sort
RECURSIVE InsertByTime(_, _)
InsertByTime(x, sorted) ==
  IF sorted = <<>> THEN <<x>>
  ELSE IF RLess(x.time, Head(sorted).time) THEN <<x>> \o sorted
  ELSE <<Head(sorted)>> \o InsertByTime(x, Tail(sorted))

RECURSIVE SortByTime(_)
SortByTime(markers) ==
  IF markers = <<>> THEN <<>>
  ELSE InsertByTime(markers[Len(markers)], SortByTime(SubSeq(markers, 1, Len(markers) - 1)))

strongBeats(markers) ==
  SortByTime(SelectSeq(markers,
                       LAMBDA beat : RLess(calculateBeatThreshold(markers), beat.strength)))

\* the set filled by for (let i = 3; i < strongBeats.length; i += 4)
jumpTimes(strong) ==
  { At(strong, i).time : i \in { j \in 0..(Len(strong) - 1) : j >= 3 /\ (j - 3) % 4 = 0 } }

amplitude == 6
xFrequency == Norm(1, 10)
LANE_WIDTH == Norm(5, 2)

\* variant: the minimum count for every duration
numNodesFixed(music) == 100

numNodes(music) == Max(100, RFloor(RMul(music.duration, RInt(10))))

\* duration * speed, speed = 50 units per second
totalLength(music) == RMul(music.duration, RInt(50))

\* THREE.Vector3.  An x coordinate is kept as written: Math.sin(arg) * 2 is
\* [sin2 |-> arg], and the difference of two of them the pair of both.  In
\* a track x is a function of z (arg = z / 500), so two x are told apart
\* only where the z are equal.
Vector3(x, y, z) == [x |-> x, y |-> y, z |-> z]

subVectors(a, b) == Vector3(<<a.x, b.x>>, RSub(a.y, b.y), RSub(a.z, b.z))

IsZeroVector(v) == v.x[1] = v.x[2] /\ v.y = Zero /\ v.z = Zero

\* Vector3.normalize(): v divided by (its length or 1).  The result is the
\* vector of the given length along v.
normalize(v) == [along |-> v, length |-> IF IsZeroVector(v) THEN 0 ELSE 1]

\* jumpTimes.has(time) || jumpTimes.has(time - 0.1) || jumpTimes.has(time + 0.1)
nearJump(time, jumps) ==
  \/ time \in jumps
  \/ RSub(time, Norm(1, 10)) \in jumps
  \/ RAdd(time, Norm(1, 10)) \in jumps

\* the body of the node loop for index i
nodeAt(music, smoothed, jumps, i) ==
  LET t == RDiv(RInt(i), RInt(numNodes(music) - 1))
      time == RMul(t, music.duration)
      s == RMul(t, totalLength(music))
      x == [sin2 |-> RMul(time, xFrequency)]
      rmsIndex == RFloor(RMul(t, RInt(Len(smoothed) - 1)))
      rms == At(smoothed, rmsIndex)
      y == RMul(rms, RInt(amplitude))
      z == s
  IN [t |-> t, s |-> s, pos |-> Vector3(x, y, z),
      forward |-> [along |-> Vector3(Zero, Zero, One), length |-> 1],
      isJump |-> nearJump(time, jumps)]

\* the nodes pushed by the passes of the node loop for the indices lo to hi
RECURSIVE nodesRange(_, _, _, _, _)
nodesRange(music, smoothed, jumps, lo, hi) ==
  IF lo > hi THEN <<>>
  ELSE IF lo = hi THEN <<nodeAt(music, smoothed, jumps, lo)>>
  ELSE LET mid == (lo + hi) \div 2
       IN nodesRange(music, smoothed, jumps, lo, mid)
            \o nodesRange(music, smoothed, jumps, mid + 1, hi)

\* the node at index i after the forward loop and the copy into the last node
forwardAt(nodes, i) ==
  IF i < Len(nodes) - 1
  THEN [At(nodes, i) EXCEPT
          !.forward = normalize(subVectors(At(nodes, i + 1).pos, At(nodes, i).pos))]
  ELSE IF Len(nodes) > 1
  THEN [At(nodes, i) EXCEPT
          !.forward = normalize(subVectors(At(nodes, i).pos, At(nodes, i - 1).pos))]
  ELSE At(nodes, i)

RECURSIVE withForward(_, _, _)
withForward(nodes, lo, hi) ==
  IF lo > hi THEN <<>>
  ELSE IF lo = hi THEN <<forwardAt(nodes, lo)>>
  ELSE LET mid == (lo + hi) \div 2
       IN withForward(nodes, lo, mid) \o withForward(nodes, mid + 1, hi)

\* variant: the first peak's strength taken for the maximum
maxStrengthOfFirst(peaks) == peaks[1].strength

RECURSIVE maxStrengthOf(_)
maxStrengthOf(peaks) ==
  IF Len(peaks) = 1 THEN peaks[1].strength
  ELSE RMax(peaks[1].strength, maxStrengthOf(Tail(peaks)))

\* the map callback of createTreblePulses.  pos is kept as its parts: the
\* node the pulse sits on, the offset along right and the lift
treblePulseAt(peak, index, nodes, trackDuration, maxStrength) ==
  LET normalizedTime == RMax(Zero, RMin(One, RDiv(peak.time, trackDuration)))
      nodeIndex == Min(Len(nodes) - 1,
                       RRound(RMul(normalizedTime, RInt(Len(nodes) - 1))))
      laneIndex == At(lanePattern, index % Len(lanePattern))
      lateralOffset == RMul(RInt(laneIndex), LANE_WIDTH)
      normalizedIntensity ==
        IF RLess(Zero, maxStrength) THEN RDiv(peak.strength, maxStrength) ELSE Zero
  IN [time |-> peak.time,
      pos |-> [node |-> nodeIndex, lateralOffset |-> lateralOffset,
               lift |-> RAdd(Norm(6, 10), RMul(normalizedIntensity, Norm(18, 10)))],
      intensity |-> normalizedIntensity,
      laneIndex |-> laneIndex]

\* variant: a pulse for every peak whatever the duration
createTreblePulsesAnyDuration(peaks, nodes, trackDuration) ==
  IF Len(peaks) = 0 \/ Len(nodes) = 0
  THEN <<>>
  ELSE [k \in 1..Len(peaks) |->
          treblePulseAt(peaks[k], k - 1, nodes,
                        IF RLess(Zero, trackDuration) THEN trackDuration ELSE One,
                        maxStrengthOf(peaks))]

createTreblePulses(peaks, nodes, trackDuration) ==
  IF Len(peaks) = 0 \/ Len(nodes) = 0 \/ ~RLess(Zero, trackDuration)
  THEN <<>>
  ELSE [k \in 1..Len(peaks) |->
          treblePulseAt(peaks[k], k - 1, nodes, trackDuration, maxStrengthOf(peaks))]

\* generateTrack with all of its result
generateTrackData(music) ==
  LET smoothedRMS == smoothRMS(music.energySamples, numNodes(music))
      jumps == jumpTimes(strongBeats(music.beats))
      placed == nodesRange(music, smoothedRMS, jumps, 0, numNodes(music) - 1)
      nodes == withForward(placed, 0, Len(placed) - 1)
  IN [nodes |-> nodes,
      treblePulses |-> createTreblePulses(music.treblePeaks, nodes, music.duration),
      length |-> totalLength(music)]

generate ==
  /\ gpc = "called"
  /\ generated' = generateTrackData(musicMap)
  /\ gpc' = "returned"
  /\ UNCHANGED <<musicMap, controllerVars, analysisVars>>

----------------------------------------------------------------------------
(* Specifications *)

\* new GameController(canvas)
Constructed ==
  /\ currentTime = 0
  /\ audioBuffer = NoBuffer
  /\ startTime = 0
  /\ pausedTime = 0
  /\ isPlaying = FALSE
  /\ trackData = NoTrack
  /\ distance = 0
  /\ laneOffsetIndex = 0
  /\ lastAutoLaneChange = 0
  /\ loads = [k \in LoadIds |-> "none"]
  /\ rnd = NoDraws
  /\ dodge = "idle"

\* analyzeBuffer's locals at its entry
AnalysisEntry ==
  /\ currentSample = 0
  /\ energySamples = <<>>
  /\ trebleSamples = <<>>
  /\ rmsValues = <<>>
  /\ trebleRmsValues = <<>>
  /\ threshold = ZeroThreshold
  /\ beats = <<>>
  /\ trebleThreshold = ZeroThreshold
  /\ treblePeaks = <<>>
  /\ loopIndex = 0

\* no analysis running
AnalysisIdle ==
  /\ duration = Time(0, 1)
  /\ channelData = <<>>
  /\ sampleRate = 0
  /\ AnalysisEntry
  /\ apc = "idle"

\* no generateTrack call made
GeneratorIdle ==
  /\ musicMap = EmptyMusicMap
  /\ generated = EmptyTrack
  /\ gpc = "idle"

Init == Constructed /\ AnalysisIdle /\ GeneratorIdle

Next ==
  \/ AdvanceTime
  \/ update
  \/ play
  \/ pause
  \/ \E key \in Keys : handleInput(key)
  \/ \E targetLane \in LaneTargets : applyLaneChange(targetLane)
  \/ \E k \in LoadIds : loadFileStart(k)
  \/ \E k \in LoadIds : loadFileRead(k)
  \/ \E k \in LoadIds, buffer \in SessionBuffers : loadFileDecoded(k, buffer)
  \/ \E k \in LoadIds : loadFileFailed(k)

Spec == Init /\ [][Next]_vars

(* One recording loaded right after construction, then driven: every       *)
(* recording of ValidBuffers, no reload.                                   *)

InitDrive ==
  \E buffer \in ValidBuffers :
    /\ currentTime = 0
    /\ audioBuffer = buffer
    /\ startTime = 0
    /\ pausedTime = 0
    /\ isPlaying = FALSE
    /\ trackData = generateTrack(buffer)
    /\ distance = 0
    /\ laneOffsetIndex = 0
    /\ lastAutoLaneChange = 0
    /\ loads = [k \in LoadIds |-> IF k = 1 THEN "settled" ELSE "none"]
    /\ rnd = NoDraws
    /\ dodge = "idle"
    /\ AnalysisIdle
    /\ GeneratorIdle

NextDrive ==
  \/ AdvanceTime
  \/ update
  \/ play
  \/ pause
  \/ \E key \in Keys : handleInput(key)
  \/ \E targetLane \in LaneTargets : applyLaneChange(targetLane)

SpecDrive == InitDrive /\ [][NextDrive]_vars

(* analyzeBuffer run on every exact buffer of at most MaxSamples samples   *)

InitAnalyze ==
  /\ Constructed
  /\ \E rate \in SampleRates, n \in 0..MaxSamples :
       \E data \in [1..n -> Amplitudes] :
         /\ ExactBuffer(data, rate)
         /\ duration = Time(n, rate)
         /\ channelData = data
         /\ sampleRate = rate
  /\ AnalysisEntry
  /\ apc = "windows"
  /\ GeneratorIdle

NextAnalyze ==
  \/ processChunk
  \/ detectBeatsStart
  \/ detectBeat
  \/ detectTrebleStart
  \/ detectTreble
  \/ analyzeReturn

SpecAnalyze == InitAnalyze /\ [][NextAnalyze]_vars

(* analyzeBuffer run on any object of the AudioBuffer shape: duration,     *)
(* sampleRate and samples independent of each other.  analyzeBuffer is     *)
(* synchronous code, so a step that can be taken is taken.                 *)

AnyRates == {10, 27}
AnyAmplitudes == {0, 2}

InitAnalyzeAny ==
  /\ Constructed
  /\ \E rate \in AnyRates, n \in 0..MaxSamples :
       \E data \in [1..n -> AnyAmplitudes], seconds \in {-1, 0, n} :
         /\ hopSize(rate) = 0 \/ ExactBuffer(data, rate)
         /\ duration = Time(seconds, rate)
         /\ channelData = data
         /\ sampleRate = rate
  /\ AnalysisEntry
  /\ apc = "windows"
  /\ GeneratorIdle

SpecAnalyzeAny == InitAnalyzeAny /\ [][NextAnalyze]_vars /\ WF_vars(NextAnalyze)

(* analyzeBuffer run on recordings of five windows and more, each window   *)
(* one of a few pairs of samples with whole rms values, so that a series   *)
(* has room for two events.                                                *)

MinWindows == 5
ExactPairs == {<<0, 0>>, <<1, -1>>, <<2, 2>>, <<2, -2>>}

PairBuffer(pairs) ==
  [k \in 1..(2 * Len(pairs)) |-> pairs[(k + 1) \div 2][IF k % 2 = 1 THEN 1 ELSE 2]]

InitAnalyzeLong ==
  /\ Constructed
  /\ \E rate \in { r \in SampleRates : hopSize(r) = 2 }, n \in MinWindows..MaxWindows :
       \E pairs \in [1..n -> ExactPairs] :
         /\ duration = Time(2 * n, rate)
         /\ channelData = PairBuffer(pairs)
         /\ sampleRate = rate
  /\ AnalysisEntry
  /\ apc = "windows"
  /\ GeneratorIdle

SpecAnalyzeLong == InitAnalyzeLong /\ [][NextAnalyze]_vars

(* generateTrack called on a MusicMap *)

MaxEnergy == 3      \* energy samples of a MusicMap
MaxPeaks == 5       \* treble peaks of a MusicMap

GenDurations == {Zero, Norm(99, 10), RInt(10), Norm(251, 20)}
GenRms == {RInt(1), RInt(2)}

\* one sample per 75 ms window
EnergySeries ==
  UNION { { [k \in 1..n |-> [time |-> RMul(RInt(k - 1), Norm(3, 40)), rms |-> rms[k]]] :
            rms \in [1..n -> GenRms] } : n \in 0..MaxEnergy }

\* beats 0.15 s apart from a first one, weak and strong in turn
BeatLengths == {0, 8, 9}
BeatStarts == {Zero, Norm(1, 20)}
BeatSeries ==
  { [k \in 1..n |-> [time |-> RAdd(start, RMul(RInt(k - 1), Norm(3, 20))),
                     strength |-> RInt(IF k % 2 = 0 THEN 2 ELSE 1)]] :
      n \in BeatLengths, start \in BeatStarts }

\* peaks 0.15 s apart and of one strength (1, or 0 for "silent"), or 3 s
\* apart and of rising strength
PeakKinds == {"flat", "rising", "silent"}
PeakSeries ==
  { [k \in 1..n |->
       [time |-> RMul(RInt(k), IF kind = "rising" THEN RInt(3) ELSE Norm(3, 20)),
        strength |-> RInt(CASE kind = "rising" -> k
                            [] kind = "flat" -> 1
                            [] OTHER -> 0)]] :
      n \in 0..MaxPeaks, kind \in PeakKinds }

MusicMaps ==
  { [duration |-> d, beats |-> b, energySamples |-> e, trebleSamples |-> e,
     treblePeaks |-> p] :
      d \in GenDurations, b \in BeatSeries, e \in EnergySeries, p \in PeakSeries }

InitTrack ==
  /\ Constructed
  /\ AnalysisIdle
  /\ musicMap \in MusicMaps
  /\ generated = EmptyTrack
  /\ gpc = "called"

NextTrack == generate

SpecTrack == InitTrack /\ [][NextTrack]_vars

TypeOK ==
  /\ currentTime \in 0..MaxTime
  /\ isPlaying \in BOOLEAN
  /\ dodge \in {"idle", "cooldown", "clear", "nosafe", "changed"}

----------------------------------------------------------------------------
(* Vocabulary of the claims about a simulation tick.  A tick reads the     *)
(* clock in the state it starts from, writes distance, and the heuristic   *)
(* then works from the written distance and the lane the car was in.       *)

\* a tick with a track loaded and audio playing
PlayingTick == update /\ Ticking

\* the distance min(clock * 50, TrackData.length) of the clock value a tick reads
TickDistance ==
  IF getCurrentTime * speed <= trackData.length
  THEN getCurrentTime * speed
  ELSE trackData.length

Hazards == DOMAIN trackData.treblePulses
HazardLane(i) == trackData.treblePulses[i].laneIndex
ForwardDistance(i, d) == trackData.treblePulses[i].z - d

\* lane holds a hazard less than 8 units ahead of a car at distance d
Threatened(lane, d) ==
  \E i \in Hazards :
    HazardLane(i) = lane /\ 0 < ForwardDistance(i, d) /\ ForwardDistance(i, d) < conflictRange

SafeLaneAt(lane, current, d) ==
  lane \in Lanes /\ lane # current /\ ~Threatened(lane, d)

\* the hazards of a lane inside the 25-unit lookahead of a car at distance d
LaneHazards(lane, d) ==
  { i \in Hazards :
      HazardLane(i) = lane /\ 0 < ForwardDistance(i, d) /\ ForwardDistance(i, d) < lookAhead }

NearestIn(S, d) ==
  IF S = {} THEN lookAhead
  ELSE CHOOSE m \in { ForwardDistance(i, d) : i \in S } :
         \A j \in S : m <= ForwardDistance(j, d)

RECURSIVE PressureOf(_, _)
PressureOf(S, d) ==
  IF S = {} THEN 0
  ELSE LET i == CHOOSE j \in S : TRUE
       IN PressureScale \div Max(1, ForwardDistance(i, d)) + PressureOf(S \ {i}, d)

\* score(lane) of the specification, in units of 1 / ScoreScale
Score(lane, current, d, draw) ==
  ScoreScale * NearestIn(LaneHazards(lane, d), d)
    - 100 * PressureOf(LaneHazards(lane, d), d)
    - 35 * PressureScale * Abs(lane - current)
    + draw * PressureScale

\* every forward distance a score divides by divides PressureScale
ExactScores ==
  \A i \in Hazards :
    LET delta == ForwardDistance(i, distance)
    IN 0 < delta /\ delta < lookAhead => PressureScale % delta = 0

----------------------------------------------------------------------------
(* The claims *)

\* C1: cooldown.  A tick changes laneIndex or rewrites the decision
\* timestamp only when its clock value is at least 0.4 s past the recorded
\* decision timestamp; a blocking situation 0.2 s after a decision changes
\* nothing.
C1_Cooldown ==
  [][ (update /\ (laneOffsetIndex' # laneOffsetIndex
                    \/ lastAutoLaneChange' # lastAutoLaneChange))
        => getCurrentTime - lastAutoLaneChange >= cooldown ]_vars

\* a tick has just run 0.2 s after a recorded decision, with the car's lane
\* blocked, and took the cooldown return
C1_Witness ==
  /\ dodge = "cooldown"
  /\ lastAutoLaneChange > 0
  /\ getCurrentTime - lastAutoLaneChange = 1
  /\ Threatened(laneOffsetIndex, distance)

\* C2: a decision is taken whenever it is due.  On every playing tick at
\* which the heuristic has made no decision during the previous 0.4 s (or
\* never made one), if the car's lane is blocked and a safe lane exists, the
\* tick moves the car to a safe lane and records the clock as the decision
\* timestamp.  (A decision records a clock value of at least 0.4 s, so
\* lastAutoLaneChange = 0 says that none was made.)
NeverDecided == lastAutoLaneChange = 0

DecisionDue == NeverDecided \/ getCurrentTime - lastAutoLaneChange >= cooldown

C2_DecisionWhenDue ==
  [][ (/\ PlayingTick
       /\ DecisionDue
       /\ Threatened(laneOffsetIndex, TickDistance)
       /\ \E lane \in Lanes : SafeLaneAt(lane, laneOffsetIndex, TickDistance))
        => /\ lastAutoLaneChange' = getCurrentTime
           /\ SafeLaneAt(laneOffsetIndex', laneOffsetIndex, TickDistance) ]_vars

\* C3: every lane the heuristic switches to is safe at the switch: it is not
\* the car's previous lane, which held the blocking hazard, and it holds no
\* hazard with forward distance d, 0 < d < 8.
C3_SwitchIsSafe ==
  [][ (update /\ lastAutoLaneChange' # lastAutoLaneChange)
        => /\ laneOffsetIndex' # laneOffsetIndex
           /\ laneOffsetIndex' \in Lanes
           /\ Threatened(laneOffsetIndex, distance')
           /\ ~Threatened(laneOffsetIndex', distance') ]_vars

\* the heuristic has just switched lane while one of the other two lanes was
\* unsafe
C3_Witness ==
  /\ dodge = "changed"
  /\ ~Threatened(laneOffsetIndex, distance)
  /\ Cardinality({ lane \in Lanes : Threatened(lane, distance) }) = 2

\* C4: in each no-decision outcome of a tick (cooldown active; no hazard of
\* the car's lane inside the conflict range; the lane blocked but neither
\* other lane safe) laneIndex and the decision timestamp stay as they were.
C4_NoDecisionNoEffect ==
  [][ (/\ PlayingTick
       /\ \/ getCurrentTime - lastAutoLaneChange < cooldown
          \/ ~Threatened(laneOffsetIndex, TickDistance)
          \/ ~\E lane \in Lanes : SafeLaneAt(lane, laneOffsetIndex, TickDistance))
        => /\ laneOffsetIndex' = laneOffsetIndex
           /\ lastAutoLaneChange' = lastAutoLaneChange ]_vars

\* a tick outside the cooldown has just found all three lanes blocked
C4_Witness ==
  /\ dodge = "nosafe"
  /\ getCurrentTime - lastAutoLaneChange >= cooldown
  /\ \A lane \in Lanes : Threatened(lane, distance)

\* C5: the lane the heuristic selects has the maximum score among the safe
\* lanes, score = nearestObstacleDistance - obstaclePressure - laneChangeCost
\* + randomness.
C5_MaxScore ==
  [][ (update /\ lastAutoLaneChange' # lastAutoLaneChange)
        => \A lane \in Lanes :
             SafeLaneAt(lane, laneOffsetIndex, distance')
               => Score(laneOffsetIndex', laneOffsetIndex, distance', rnd'[laneOffsetIndex'])
                    >= Score(lane, laneOffsetIndex, distance', rnd'[lane]) ]_vars

\* the heuristic has just chosen between two safe lanes, one of them with two
\* hazards inside the lookahead
C5_Witness ==
  /\ dodge = "changed"
  /\ ExactScores
  /\ Cardinality({ lane \in Lanes : ~Threatened(lane, distance) }) = 2
  /\ \E lane \in Lanes :
       ~Threatened(lane, distance) /\ Cardinality(LaneHazards(lane, distance)) >= 2

\* C6: ties go to the candidate seen first in the order [-1, 0, 1]: among the
\* safe lanes whose score equals the selected lane's, none comes before the
\* selected lane.  With every draw 0, the car in lane 0, a blocking hazard in
\* lane 0 at forward distance 5 and no hazard ahead in lanes -1 and 1, both
\* candidates score 25 - 0.35 and lane -1 is selected.
C6_TieBreak ==
  [][ (update /\ lastAutoLaneChange' # lastAutoLaneChange)
        => /\ \A lane \in Lanes :
                (/\ SafeLaneAt(lane, laneOffsetIndex, distance')
                 /\ Score(lane, laneOffsetIndex, distance', rnd'[lane])
                      = Score(laneOffsetIndex', laneOffsetIndex, distance', rnd'[laneOffsetIndex']))
                  => laneOffsetIndex' <= lane
           /\ (/\ rnd' = NoDraws
               /\ laneOffsetIndex = 0
               /\ \E i \in Hazards : HazardLane(i) = 0 /\ ForwardDistance(i, distance') = 5
               /\ LaneHazards(-1, distance') = {}
               /\ LaneHazards(1, distance') = {})
                => /\ Score(-1, 0, distance', 0) = 25 * ScoreScale - 35 * PressureScale
                   /\ Score(1, 0, distance', 0) = 25 * ScoreScale - 35 * PressureScale
                   /\ laneOffsetIndex' = -1 ]_vars

\* the heuristic has just resolved that tie: all draws 0, a hazard in lane 0
\* five units ahead, lanes -1 and 1 empty, the car now in lane -1
C6_Witness ==
  /\ dodge = "changed"
  /\ rnd = NoDraws
  /\ laneOffsetIndex = -1
  /\ \E i \in Hazards : HazardLane(i) = 0 /\ ForwardDistance(i, distance) = 5
  /\ LaneHazards(-1, distance) = {}
  /\ LaneHazards(1, distance) = {}

\* C7: laneIndex is one of -1, 0, 1 in every reachable state.
C7_LaneInRange == laneOffsetIndex \in {-1, 0, 1}

\* after an automatic decision and a reload, a manual input has put the car in
\* the leftmost lane
C7_Witness ==
  /\ lastAutoLaneChange > 0
  /\ laneOffsetIndex = -1
  /\ Cardinality({ k \in LoadIds : loads[k] = "settled" }) >= 2
  /\ trackData # NoTrack

\* C8: a tick with a track loaded and playback running leaves distance at
\* min(clock * 50, TrackData.length) for the clock value it read, and
\* 0 <= distance <= TrackData.length.
C8_TickDistance ==
  [][ PlayingTick
        => /\ distance' = TickDistance
           /\ 0 <= distance'
           /\ distance' <= trackData.length ]_vars

\* a tick has just run with the playback past the end of the recording: the
\* distance is the track's length
C8_Witness ==
  /\ dodge \in {"cooldown", "clear", "nosafe", "changed"}
  /\ isPlaying
  /\ currentTime - startTime > audioBuffer.duration
  /\ distance = trackData.length

\* C9: distance does not decrease from one tick to the next of a session.
\* distance is written by ticks and by loadFile's reset to 0 only, so before
\* a tick it holds what the previous tick of the session wrote (0 if none).
C9_DistanceMonotone ==
  [][ PlayingTick => distance' >= distance ]_vars

\* a tick has just run after a pause and a resume, while a loadFile is in
\* progress
C9_Witness ==
  /\ dodge \in {"cooldown", "clear", "nosafe", "changed"}
  /\ isPlaying
  /\ pausedTime > 0
  /\ startTime > 0
  /\ distance > pausedTime * speed
  /\ \E k \in LoadIds : loads[k] \in {"reading", "decoding"}

----------------------------------------------------------------------------
(* Vocabulary of the claims about the analysis *)

RECURSIVE SumOver(_, _)
SumOver(series, S) ==
  IF S = {} THEN 0
  ELSE LET p == CHOOSE q \in S : TRUE
       IN series[p] + SumOver(series, S \ {p})

\* series[p] > mean(series) + 0.5 * stddev(series): with e = series[p] - mean,
\* e > 0 and 4 e^2 > variance, both sides multiplied by n^2 (times n for the
\* variance's division)
AboveMeanPlusHalfStd(series, p) ==
  LET n == Len(series)
      total == SumOver(series, DOMAIN series)
      e == n * series[p] - total
      squares == [q \in DOMAIN series |-> (n * series[q] - total) * (n * series[q] - total)]
  IN e > 0 /\ 4 * n * e * e > SumOver(squares, DOMAIN series)

\* the window at position p (window index p - 1) is an event of the series
IsEvent(series, p) ==
  /\ 1 < p
  /\ p < Len(series)
  /\ series[p - 1] < series[p]
  /\ series[p] > series[p + 1]
  /\ AboveMeanPlusHalfStd(series, p)

\* the timestamp of the window at position p: its first sample / sampleRate
WindowTime(p) == [num |-> (p - 1) * hopSize(sampleRate), den |-> sampleRate]

EventsOf(markers, series) ==
  /\ \A p \in DOMAIN series :
       (\E k \in DOMAIN markers : markers[k].time = WindowTime(p)) <=> IsEvent(series, p)
  /\ \A k \in DOMAIN markers :
       \E p \in DOMAIN series :
         markers[k] = [time |-> WindowTime(p), strength |-> series[p]]
  /\ Len(markers) = Cardinality({ p \in DOMAIN series : IsEvent(series, p) })

\* C10: event detection.  beats (treblePeaks) holds a marker for window i if
\* and only if i is neither the first nor the last window, the series rises
\* into i and falls after it, and series[i] > mean + 0.5 * stddev; the marker
\* carries the window's timestamp and value.
C10_EventDetection ==
  apc = "done"
    => /\ EventsOf(beats, rmsValues)
       /\ EventsOf(treblePeaks, trebleRmsValues)

\* an analysis has ended with a treble peak found, while the first window,
\* as loud as any other, is no beat and neither is an interior window that
\* rises above both neighbours but not above the threshold
C10_Witness ==
  /\ apc = "done"
  /\ treblePeaks # <<>>
  /\ \A p \in DOMAIN rmsValues : rmsValues[1] >= rmsValues[p]
  /\ \E p \in DOMAIN rmsValues :
       /\ 1 < p
       /\ p < Len(rmsValues)
       /\ rmsValues[p - 1] < rmsValues[p]
       /\ rmsValues[p] > rmsValues[p + 1]
       /\ \A k \in DOMAIN beats : beats[k].time # WindowTime(p)

\* the threshold t has exactly the value c:
\* 2 n^2 c - 2 n sum = sqrt(n dev)
ThresholdEquals(t, c) ==
  LET a == 2 * t.n * t.n * c - 2 * t.n * t.sum
  IN a >= 0 /\ a * a = t.n * t.dev

\* a series of N >= 1 identical values
Identical(series) ==
  /\ series # <<>>
  /\ \A p, q \in DOMAIN series : series[p] = series[q]

\* C11: when all N >= 1 values of a series are the same value, the series'
\* threshold is that value and the series reports no event: beats for the
\* energy series, treblePeaks for the treble series.
C11_IdenticalValues ==
  apc = "done"
    => /\ Identical(rmsValues)
            => ThresholdEquals(threshold, rmsValues[1]) /\ beats = <<>>
       /\ Identical(trebleRmsValues)
            => ThresholdEquals(trebleThreshold, trebleRmsValues[1]) /\ treblePeaks = <<>>

\* an analysis has ended on three or more windows of one non-zero energy
C11_Witness ==
  /\ apc = "done"
  /\ Len(rmsValues) >= 3
  /\ Identical(rmsValues)
  /\ rmsValues[1] > 0
  /\ Identical(trebleRmsValues)

\* the window at position p is a spike: every other window, and there is
\* one, has one common lower value
SingleSpike(series, p) ==
  /\ p \in DOMAIN series
  /\ Len(series) >= 2
  /\ \A q, r \in DOMAIN series \ {p} : series[q] = series[r]
  /\ \A q \in DOMAIN series \ {p} : series[q] < series[p]

OneBeatAt(p) ==
  /\ Len(beats) = 1
  /\ beats[1].time = WindowTime(p)

\* C12 as stated: when the energy series is one spike over a lower common
\* value, beats holds exactly one marker, at the spike's window time, for
\* every series length and every position of the spike.
C12_SingleSpike ==
  apc = "done"
    => \A p \in DOMAIN rmsValues : SingleSpike(rmsValues, p) => OneBeatAt(p)

\* C12 amended: the same for a spike that is neither the first nor the last
\* window; a spike in the first or the last window leaves beats empty.
C12_InteriorSpike ==
  apc = "done"
    => \A p \in DOMAIN rmsValues :
         SingleSpike(rmsValues, p)
           => IF 1 < p /\ p < Len(rmsValues) THEN OneBeatAt(p) ELSE beats = <<>>

\* an analysis has ended on four windows, the third a spike over a non-zero floor
C12_Witness ==
  /\ apc = "done"
  /\ Len(rmsValues) = 4
  /\ SingleSpike(rmsValues, 3)
  /\ rmsValues[1] > 0
  /\ Len(beats) = 1

\* the input the contract calls invalid: duration <= 0 or no samples
InvalidInput == duration.num <= 0 \/ channelData = <<>>

\* C13: InvalidInput.  When duration <= 0 or the sample buffer is empty, the
\* returned MusicMap has beats, energySamples, trebleSamples and treblePeaks
\* all empty and both thresholds are 0.
C13_InvalidInput ==
  apc = "done" /\ InvalidInput
    => /\ beats = <<>>
       /\ energySamples = <<>>
       /\ trebleSamples = <<>>
       /\ treblePeaks = <<>>
       /\ ThresholdEquals(threshold, 0)
       /\ ThresholdEquals(trebleThreshold, 0)

\* C14: analysis always terminates.  For every sample buffer and every
\* positive sample rate, those with floor(sampleRate * 0.075) = 0 included,
\* the windowing loop finishes and the MusicMap is returned.
C14_Terminates == <>(apc = "done")

----------------------------------------------------------------------------
(* Vocabulary of the claims about the generated track *)

Returned == gpc = "returned"
Nodes == generated.nodes
NodeCount == Len(generated.nodes)

\* C15: the path has exactly max(100, floor(duration * 10)) nodes, length is
\* duration * 50, the first node has s = 0 and the last node s = length;
\* duration 10 gives 100 nodes and length 500.
C15_NodeCountAndLength ==
  Returned
    => /\ NodeCount = Max(100, (musicMap.duration.num * 10) \div musicMap.duration.den)
       /\ generated.length.num * musicMap.duration.den
            = musicMap.duration.num * 50 * generated.length.den
       /\ Nodes[1].s = Zero
       /\ Nodes[NodeCount].s = generated.length
       /\ musicMap.duration = RInt(10)
            => NodeCount = 100 /\ generated.length = RInt(500)

\* a track of more than 100 nodes has been generated
C15_Witness ==
  /\ Returned
  /\ NodeCount > 100
  /\ Nodes[NodeCount].s = generated.length
  /\ generated.length.num > 0

\* C16: in every returned TrackData, the one generated from the empty,
\* zero-duration MusicMap included, the nodes' cumulative distance s is
\* strictly increasing along the node sequence.
C16_StrictlyIncreasing ==
  Returned => \A k \in 1..(NodeCount - 1) : RLess(Nodes[k].s, Nodes[k + 1].s)

\* C17: in every returned TrackData every node's forward is a unit vector,
\* also where consecutive nodes coincide, and the last node's forward is the
\* second-to-last node's forward.
C17_UnitForward ==
  Returned
    => /\ \A k \in 1..NodeCount : Nodes[k].forward.length = 1
       /\ Nodes[NodeCount].forward = Nodes[NodeCount - 1].forward

\* the series generateTrack hands to the node loop
SmoothedSeries == smoothRMS(musicMap.energySamples, numNodes(musicMap))

\* energySamples is non-empty and every rms in it is c
ConstantEnergy(c) ==
  /\ musicMap.energySamples # <<>>
  /\ \A k \in DOMAIN musicMap.energySamples : musicMap.energySamples[k].rms = c

\* C18: resampling a non-empty energySamples series whose rms values all
\* equal c, to any target count, gives a series whose every entry is c, for
\* every series length, a single sample included.
C18_ConstantResample ==
  Returned
    => \A c \in GenRms :
         ConstantEnergy(c)
           => LET smoothed == SmoothedSeries
              IN /\ Len(smoothed) = NodeCount
                 /\ \A i \in DOMAIN smoothed : smoothed[i] = c

\* the sample time of the node at position k
NodeTime(k) == RMul(Nodes[k].t, musicMap.duration)

JumpTimestamps == jumpTimes(strongBeats(musicMap.beats))

WithinTenth(a, b) == ~RLess(Norm(1, 10), RAbs(RSub(a, b)))

\* C19: a node is flagged isJump whenever its sample time is a jump
\* timestamp or lies within 0.1 s before or after one, and is not flagged
\* otherwise.
C19_JumpWindow ==
  Returned
    => \A k \in 1..NodeCount :
         Nodes[k].isJump <=> \E jump \in JumpTimestamps : WithinTenth(NodeTime(k), jump)

Peaks == musicMap.treblePeaks
Pulses == generated.treblePulses

\* one hazard per peak, in order, with the peak's time and the lane of its
\* ordinal position
OnePulsePerPeak ==
  /\ Len(Pulses) = Len(Peaks)
  /\ \A k \in DOMAIN Peaks :
       /\ Pulses[k].time = Peaks[k].time
       /\ Pulses[k].laneIndex = <<-1, 1, 0>>[((k - 1) % 3) + 1]

\* C20 as stated: treblePulses has exactly one hazard per treble peak, in
\* the order and with the times of treblePeaks, and the hazard at ordinal
\* position k has lane [-1, 1, 0][k mod 3].
C20_OnePulsePerPeak == Returned => OnePulsePerPeak

\* C20 amended: the same when duration > 0; when duration <= 0 treblePulses
\* is empty whatever the peaks.
C20_OnePulsePerPeakOfPositiveDuration ==
  Returned
    => IF RLess(Zero, musicMap.duration) THEN OnePulsePerPeak ELSE Pulses = <<>>

\* five peaks of rising strength on a track of positive duration got the
\* lanes -1, 1, 0, -1, 1
C20_Witness ==
  /\ Returned
  /\ RLess(Zero, musicMap.duration)
  /\ Len(Peaks) = 5
  /\ RLess(Peaks[1].strength, Peaks[5].strength)
  /\ [k \in 1..5 |-> Pulses[k].laneIndex] = <<-1, 1, 0, -1, 1>>

\* the largest strength among the peaks, peaks non-empty
StrongestStrength ==
  LET strengths == { Peaks[k].strength : k \in DOMAIN Peaks }
  IN CHOOSE m \in strengths : \A other \in strengths : ~RLess(m, other)

\* a = b / c as real numbers, c # 0
IsQuotient(a, b, c) == a.num * c.num * b.den = b.num * c.den * a.den

\* C21: every hazard's intensity equals peak.strength / max(all peak
\* strengths) and lies in [0, 1]; the strongest peak's hazard has intensity
\* exactly 1; when the maximum strength is 0 every intensity is 0.
C21_Intensity ==
  Returned
    => \A k \in DOMAIN Pulses :
         /\ ~RLess(Pulses[k].intensity, Zero)
         /\ ~RLess(One, Pulses[k].intensity)
         /\ IF StrongestStrength = Zero
            THEN Pulses[k].intensity = Zero
            ELSE /\ IsQuotient(Pulses[k].intensity, Peaks[k].strength, StrongestStrength)
                 /\ Peaks[k].strength = StrongestStrength => Pulses[k].intensity = One

\* five hazards were made from peaks of strengths 1 to 5: the last has
\* intensity 1, the first an intensity strictly between 0 and 1
C21_Witness ==
  /\ Returned
  /\ Len(Pulses) = 5
  /\ Pulses[5].intensity = One
  /\ RLess(Zero, Pulses[1].intensity)
  /\ RLess(Pulses[1].intensity, One)

\* C22: when the MusicMap has no treble peaks or a non-positive duration,
\* generate still returns a TrackData with its full node list and an empty
\* treblePulses list.
C22_DegenerateHazards ==
  Returned /\ (Peaks = <<>> \/ ~RLess(Zero, musicMap.duration))
    => /\ Pulses = <<>>
       /\ NodeCount = Max(100, (musicMap.duration.num * 10) \div musicMap.duration.den)
       /\ NodeCount >= 100

\* a track was returned for a MusicMap of duration 0 that has treble peaks
C22_Witness ==
  /\ Returned
  /\ musicMap.duration = Zero
  /\ Len(Peaks) >= 2
  /\ Pulses = <<>>
  /\ NodeCount = 100

\* C23: a tick taken while playback is paused or no track is loaded leaves
\* distance, laneIndex and the decision timestamp as they were, and the
\* avoidance heuristic is evaluated only by ticks taken with a track loaded
\* and audio playing.
C23_IdleTick ==
  [][ /\ (update /\ (~isPlaying \/ trackData = NoTrack))
        => /\ distance' = distance
           /\ laneOffsetIndex' = laneOffsetIndex
           /\ lastAutoLaneChange' = lastAutoLaneChange
           /\ dodge' = "idle"
      /\ dodge' # "idle" => update /\ isPlaying /\ trackData # NoTrack ]_vars

\* playback is paused on a loaded track with the clock ahead of the car, in
\* a lane the car was moved to: a tick now has something it could overwrite
C23_Witness ==
  /\ ~isPlaying
  /\ trackData # NoTrack
  /\ distance > 0
  /\ distance < Min(getCurrentTime * speed, trackData.length)
  /\ laneOffsetIndex # 0

\* floor(sampleRate * 0.075), the window length of the claims
WindowLength == (sampleRate * 75) \div 1000

Median(values) ==
  LET sorted == SortAscending(values)
      n == Len(sorted)
  IN IF n % 2 = 1 THEN At(sorted, n \div 2)
     ELSE RDiv(RAdd(At(sorted, n \div 2 - 1), At(sorted, n \div 2)), RInt(2))

\* the beats whose strength exceeds 1.2 times the median strength, by time
StrongByMedian(markers) ==
  IF markers = <<>> THEN <<>>
  ELSE LET limit == RMul(Median([k \in 1..Len(markers) |-> markers[k].strength]),
                         Norm(12, 10))
       IN SortByTime(SelectSeq(markers, LAMBDA beat : RLess(limit, beat.strength)))

\* C25: the jump timestamps of a generated track are the times of the
\* strong beats at the 0-based positions 3, 7, 11, ... of the strong beats
\* sorted by time, a beat being strong iff its strength is greater than 1.2
\* times the median of all beat strengths; with fewer than 4 strong beats
\* there is no jump timestamp and no node is flagged isJump.
C25_JumpTimestamps ==
  Returned
    => LET strong == StrongByMedian(musicMap.beats)
           positions == { i \in 0..(Len(strong) - 1) : i % 4 = 3 }
       IN /\ JumpTimestamps = { At(strong, i).time : i \in positions }
          /\ Len(strong) < 4
               => /\ JumpTimestamps = {}
                  /\ \A k \in 1..Len(generated.nodes) : ~generated.nodes[k].isJump

\* C26: a two-lane jump is never preferred over an equally free adjacent
\* lane.  When the heuristic decides with the car in an outer lane (-1 or 1)
\* and neither the middle lane nor the opposite lane holds a hazard inside
\* the 25-unit lookahead, it selects lane 0 whatever the two draws are.
C26_AdjacentOverJump ==
  [][ (/\ update
       /\ dodge' = "changed"
       /\ laneOffsetIndex \in {-1, 1}
       /\ LaneHazards(0, distance') = {}
       /\ LaneHazards(-laneOffsetIndex, distance') = {})
        => laneOffsetIndex' = 0 ]_vars

\* the heuristic has just moved the car from lane -1 to lane 0 with lanes 0
\* and 1 free, the draw of lane 0 the least and that of lane 1 the greatest
C26_Witness ==
  /\ dodge = "changed"
  /\ laneOffsetIndex = 0
  /\ rnd[0] = 0
  /\ rnd[1] = 14
  /\ LaneHazards(0, distance) = {}
  /\ LaneHazards(1, distance) = {}
  /\ \E i \in Hazards : HazardLane(i) = -1 /\ 0 < ForwardDistance(i, distance)
                                           /\ ForwardDistance(i, distance) < conflictRange

\* every marker carries the time of an entry of the series, and two
\* successive markers are at least two windows apart (all times are a sample
\* index over the sample rate)
EventsApart(markers, series) ==
  /\ \A k \in 1..Len(markers) :
       \E p \in 1..Len(series) : series[p].time = markers[k].time
  /\ \A k \in 1..(Len(markers) - 1) :
       /\ markers[k].time.den = markers[k + 1].time.den
       /\ markers[k + 1].time.num - markers[k].time.num >= 2 * WindowLength

\* C27: no two consecutive analysis windows are both events.  In beats and
\* in treblePeaks the marker times strictly increase, two successive markers
\* are at least two windows apart, and every marker's time is the time of an
\* entry of energySamples, respectively trebleSamples.
C27_NoAdjacentEvents ==
  /\ EventsApart(beats, energySamples)
  /\ EventsApart(treblePeaks, trebleSamples)

\* an analysis has ended with two beats exactly two windows apart and two
\* treble peaks exactly two windows apart
C27_Witness ==
  /\ apc = "done"
  /\ Len(beats) = 2
  /\ beats[2].time.num - beats[1].time.num = 2 * WindowLength
  /\ Len(treblePeaks) = 2
  /\ treblePeaks[2].time.num - treblePeaks[1].time.num = 2 * WindowLength

InFlight(k) == loads[k] \in {"reading", "decoding"}

\* two loadFile calls are in flight at once
Overlapping == \E j, k \in LoadIds : j # k /\ InFlight(j) /\ InFlight(k)

AllCompleted == \A k \in LoadIds : loads[k] = "settled"

\* the controller's track is the one generated from the buffer the engine
\* holds (none if the engine holds none)
TrackOfEngineBuffer ==
  trackData = IF audioBuffer = NoBuffer THEN NoTrack ELSE generateTrack(audioBuffer)

\* C28: overlapping loads stay consistent.  If a second loadFile is started
\* before an earlier one has completed, then in every interleaving of their
\* asynchronous steps, once both have completed the controller's TrackData
\* is the one generated from the buffer the audio engine holds.
C28_OverlappingLoads ==
  [](Overlapping => [](AllCompleted => TrackOfEngineBuffer))

\* the load started second has completed with a recording of one hazard
\* while the load started first is still decoding
C28_Witness ==
  /\ loads[1] = "decoding"
  /\ loads[2] = "settled"
  /\ audioBuffer # NoBuffer
  /\ Len(trackData.treblePulses) = 1
  /\ TrackOfEngineBuffer

\* C29: a manual lane input moves laneIndex by exactly one lane toward the
\* requested side, saturating at -1 and 1, and leaves distance and the
\* decision timestamp unchanged, so that the time left of the cooldown is
\* what it was; any other key changes nothing of the game or the playback.
C29_ManualInput ==
  [][ \A key \in Keys :
        handleInput(key)
          => /\ key = "ArrowLeft"
                  => laneOffsetIndex' = IF laneOffsetIndex = -1 THEN -1
                                        ELSE laneOffsetIndex - 1
             /\ key = "ArrowRight"
                  => laneOffsetIndex' = IF laneOffsetIndex = 1 THEN 1
                                        ELSE laneOffsetIndex + 1
             /\ key \notin {"ArrowLeft", "ArrowRight"} => laneOffsetIndex' = laneOffsetIndex
             /\ distance' = distance
             /\ lastAutoLaneChange' = lastAutoLaneChange
             /\ getCurrentTime' - lastAutoLaneChange' = getCurrentTime - lastAutoLaneChange
             /\ UNCHANGED <<currentTime, audioBuffer, startTime, pausedTime, isPlaying,
                            trackData, loads>> ]_vars

\* at the clock value and distance of the last decision, inside its
\* cooldown, the car has been steered back to the left lane although that
\* lane is blocked: no decision chooses a blocked lane
C29_Witness ==
  /\ dodge = "idle"
  /\ trackData # NoTrack
  /\ isPlaying
  /\ lastAutoLaneChange > 0
  /\ getCurrentTime = lastAutoLaneChange
  /\ distance = TickDistance
  /\ laneOffsetIndex = -1
  /\ Threatened(-1, distance)

====
